---- MODULE Spec2Model ----
(***************************************************************************)
(* Job recommender: the artifact builder (src/incremental.py), the API     *)
(* process that loads and hot-reloads the artifacts (src/api.py) and the   *)
(* ranking function (src/pipeline.py).                                     *)
(*                                                                         *)
(* Spec      the jobs table, the artifact files, one builder run at a      *)
(*           time, the API's loader (startup and /reload) and one          *)
(*           /recommend request, interleaved statement by statement.       *)
(* SpecRank  recommend_jobs_for_user as a function of its arguments.       *)
(*                                                                         *)
(* Encoding. An optional value (a Python name that may be None, a file     *)
(* that may be missing) is <<>> or <<v>>. An embedding vector is stood for *)
(* by the job_id of the row whose text was embedded; a title slot is the   *)
(* job_id when the slot holds a vector and -job_id when it holds None.     *)
(***************************************************************************)
EXTENDS Integers, Sequences, FiniteSets, TLC

\* ---------------------------------------------------------------- bounds
MaxJobs == 2          \* rows ever inserted into the jobs table
MaxRemovals == 1      \* artifact files removed from the directory
MaxN == 3             \* SpecRank: vectors in the index
MaxTopK == 2          \* SpecRank: largest top_k asked for

\* ------------------------------------------------------------ optionals
None == <<>>
Some(v) == <<v>>
Val(o) == o[1]

Abs(x) == IF x < 0 THEN -x ELSE x

\* ---------------------------------------------------------------- paths
EMBED_PATH == "jobs_embeddings.npy"
IDS_PATH == "job_ids.npy"
META_PATH == "job_metadatas.npy"
TITLE_EMB_PATH == "job_title_embs.npy"
INDEX_PATH == "faiss_index.bin"
CSV_PATH == "jobs_cleaned.csv"

required_files == {INDEX_PATH, EMBED_PATH, IDS_PATH, META_PATH, TITLE_EMB_PATH}
Paths == required_files \cup {CSV_PATH}

\* The text columns a jobs row may carry: a job with a title, skills and
\* experience, and a job whose three text columns are all placeholders.
JobTexts ==
  { [job_title |-> "Data Analyst", job_key_skills |-> "python, sql",
     job_ext_experience |-> "2 years"],
    [job_title |-> "", job_key_skills |-> "none", job_ext_experience |-> "0"] }

\* The rows of data/jobs_cleaned.csv.
CsvJobs ==
  << [job_id |-> 1, job_title |-> "Data Analyst", job_key_skills |-> "python, sql",
      job_ext_experience |-> "2 years"] >>

VARIABLES
  db,              \* the jobs table: rows in insertion order
  disk,            \* path -> optional file content
  removals,        \* files removed so far
  bPc,             \* builder: "idle" or the np.save it is about to make
  bld,             \* builder: the arrays it is saving
  apiState,        \* "down", "loading", "up", "failed"
  index, job_ids, job_title_embs, jobs_df,   \* the API's globals
  ldPc,            \* loader: the assignment it is about to make
  ldPre,           \* the globals when the running/last reload started
  ldMissing,       \* whether a required file was missing when the load started
  rlResp,          \* /reload's last response
  rqOverlap,       \* reloads that ran during the running request: 0, 1, 2 = more
  rqPc,            \* request: the global it is about to read
  args,            \* request: the arguments read so far
  rin,             \* the arguments of the function called (SpecRank and after)
  rpc,             \* "ready", then "done" once the function was called
  rout             \* what the call computed and returned

vars == << db, disk, removals, bPc, bld, apiState, index, job_ids,
           job_title_embs, jobs_df, ldPc, ldPre, ldMissing, rlResp, rqOverlap,
           rqPc, args, rin, rpc, rout >>

builderVars == << bPc, bld >>
globals == << index, job_ids, job_title_embs, jobs_df >>
loaderVars == << apiState, index, job_ids, job_title_embs, jobs_df, ldPc,
                 ldPre, ldMissing, rlResp >>
requestVars == << rqPc, args >>
rankVars == << rin, rpc, rout >>
mainVars == << db, disk, removals, bPc, bld, apiState, index, job_ids,
               job_title_embs, jobs_df, ldPc, ldPre, ldMissing, rlResp,
               rqOverlap, rqPc, args >>

NoArrays == [embs |-> <<>>, ids |-> <<>>, metas |-> <<>>, title_embs |-> <<>>,
             index |-> <<>>]
NoArgs == [index |-> None, job_ids |-> None, jobs_df |-> None,
           job_title_embs |-> None]

exists(p) == disk[p] # None

NoRankInput == [index |-> <<>>, job_ids |-> <<>>, jobs_df |-> <<>>,
                job_title_embs |-> <<>>, top_k |-> 0, faiss_pool |-> 0]
NoRankOutput == [raised |-> FALSE, pool |-> <<>>, ranked |-> <<>>, ret |-> <<>>]


\* ------------------------------------------------------------ environment
\* A row is inserted into the jobs table (job_id is the auto-increment key).
InsertJob(texts) ==
  /\ Len(db) < MaxJobs
  /\ db' = Append(db, [job_id |-> Len(db) + 1, job_title |-> texts.job_title,
                       job_key_skills |-> texts.job_key_skills,
                       job_ext_experience |-> texts.job_ext_experience])
  /\ UNCHANGED << disk, removals, builderVars, loaderVars, requestVars, rqOverlap >>
  /\ UNCHANGED rankVars

\* A file of the data directory is removed (what os.path.exists tests for).
RemoveArtifact(p) ==
  /\ removals < MaxRemovals
  /\ exists(p)
  /\ disk' = [disk EXCEPT ![p] = None]
  /\ removals' = removals + 1
  /\ UNCHANGED << db, builderVars, loaderVars, requestVars, rqOverlap >>
  /\ UNCHANGED rankVars

\* ------------------------------------------------------------- embeddings
is_valid_text(value) ==
  value \notin {"", "0", "none", "nan", "null", "na", "n/a"}

\* text_parts is non-empty, so ". ".join(text_parts).strip() is non-empty
HasText(row) ==
  \/ is_valid_text(row.job_title)
  \/ is_valid_text(row.job_key_skills)
  \/ is_valid_text(row.job_ext_experience)

\* (ids, embeddings, metadatas): one entry per row that has text, in row order
generate_job_embeddings(df_jobs) ==
  LET kept == SelectSeq(df_jobs, HasText)
      col == [i \in 1..Len(kept) |-> kept[i].job_id]
  IN [ids |-> col, embs |-> col, metas |-> col]

\* one slot per row: None for a blank title, the title's vector otherwise
generate_title_embeddings(rows) ==
  [i \in 1..Len(rows) |->
     IF rows[i].job_title = "" THEN -rows[i].job_id ELSE rows[i].job_id]

job_id_column(df) == [i \in 1..Len(df) |-> df[i].job_id]

SeqRange(s) == {s[i] : i \in 1..Len(s)}

\* ---------------------------------------------------------------- builder
\* __main__ of incremental.py: a file is missing, so full_build() runs.
\* dbOk = FALSE: fetch_all_jobs_from_db returned None (MySQL error) and
\* df["job_id"] raises. No row with text: embs.shape[1] raises. Either way
\* the run dies before the first np.save.
full_build(dbOk) ==
  /\ bPc = 0
  /\ \E p \in required_files : ~exists(p)
  /\ LET df == db
         job_ids_ == job_id_column(df)
         gen == generate_job_embeddings(df)
         title_embs == generate_title_embeddings(df)
     IN IF ~dbOk \/ Len(gen.embs) = 0
        THEN UNCHANGED << bPc, bld >>
        ELSE /\ bld' = [embs |-> gen.embs, ids |-> job_ids_, metas |-> gen.metas,
                        title_embs |-> title_embs, index |-> gen.embs]
             /\ bPc' = 1
  /\ UNCHANGED << db, disk, removals, loaderVars, requestVars, rqOverlap >>
  /\ UNCHANGED rankVars

\* mutant of new_ids_of: the cached ids are not subtracted
new_ids_all(ids, df) == SeqRange(job_id_column(df))

\* new_ids = sorted(list(db_ids - cached_ids))
new_ids_of(ids, df) == SeqRange(job_id_column(df)) \ SeqRange(ids)

\* __main__ of incremental.py: all five files exist, so incremental_update()
\* runs. It returns early when the table holds no id the id file lacks, and
\* dies before saving when no new row has text (normalize_L2 of an empty
\* array) or the fetch failed.
incremental_update(dbOk) ==
  /\ bPc = 0
  /\ \A p \in required_files : exists(p)
  /\ LET embs == Val(disk[EMBED_PATH])
         ids == Val(disk[IDS_PATH])
         metas == Val(disk[META_PATH])
         title_embs == Val(disk[TITLE_EMB_PATH])
         index_ == Val(disk[INDEX_PATH])
         df == db
         new_ids == new_ids_of(ids, df)
         in_new(row) == row.job_id \in new_ids
         df_new == SelectSeq(df, in_new)
         new_ids_array == job_id_column(df_new)
         gen == generate_job_embeddings(df_new)
         new_titles == generate_title_embeddings(df_new)
     IN IF ~dbOk
        THEN UNCHANGED << bPc, bld >>
        ELSE IF new_ids = {}
        THEN UNCHANGED << bPc, bld >>
        ELSE IF Len(gen.embs) = 0
        THEN UNCHANGED << bPc, bld >>
        ELSE /\ bld' = [embs |-> embs \o gen.embs,
                        ids |-> ids \o new_ids_array,
                        metas |-> metas \o gen.metas,
                        title_embs |-> title_embs \o new_titles,
                        index |-> index_ \o gen.embs]
             /\ bPc' = 1
  /\ UNCHANGED << db, disk, removals, loaderVars, requestVars, rqOverlap >>
  /\ UNCHANGED rankVars

\* The five saves that end full_build and incremental_update, in order.
SaveOrder == << EMBED_PATH, IDS_PATH, META_PATH, TITLE_EMB_PATH, INDEX_PATH >>

Saved(k) ==
  CASE k = 1 -> bld.embs
    [] k = 2 -> bld.ids
    [] k = 3 -> bld.metas
    [] k = 4 -> bld.title_embs
    [] k = 5 -> bld.index

save_files ==
  /\ bPc \in 1..5
  /\ disk' = [disk EXCEPT ![SaveOrder[bPc]] = Some(Saved(bPc))]
  /\ bPc' = IF bPc = 5 THEN 0 ELSE bPc + 1
  /\ bld' = IF bPc = 5 THEN NoArrays ELSE bld
  /\ UNCHANGED << db, removals, loaderVars, requestVars, rqOverlap >>
  /\ UNCHANGED rankVars

\* ----------------------------------------------------------------- loader
\* load_resources, up to its first assignment: the startup hook raises when a
\* required file is missing, and the server does not come up.
load_resources ==
  /\ apiState = "down"
  /\ ldMissing' = (\E p \in required_files : ~exists(p))
  /\ IF \A p \in required_files : exists(p)
     THEN /\ index' = disk[INDEX_PATH]
          /\ apiState' = "loading"
          /\ ldPc' = "job_ids"
     ELSE /\ apiState' = "failed"
          /\ UNCHANGED << index, ldPc >>
  /\ UNCHANGED << db, disk, removals, builderVars, job_ids, job_title_embs,
                  jobs_df, ldPre, rlResp, rqOverlap, requestVars >>
  /\ UNCHANGED rankVars

\* reload_resources, up to its first assignment: load_faiss_index raises
\* FileNotFoundError when the index file is missing.
reload_resources ==
  /\ apiState = "up"
  /\ ldPc = "idle"
  /\ ldPre' = globals
  /\ rqOverlap' = IF rqPc = "idle" THEN 0 ELSE IF rqOverlap = 0 THEN 1 ELSE 2
  /\ ldMissing' = (\E p \in required_files : ~exists(p))
  /\ IF exists(INDEX_PATH)
     THEN /\ index' = disk[INDEX_PATH]
          /\ ldPc' = "job_ids"
          /\ rlResp' = "none"
     ELSE /\ rlResp' = "error"
          /\ UNCHANGED << index, ldPc >>
  /\ UNCHANGED << db, disk, removals, builderVars, apiState, job_ids,
                  job_title_embs, jobs_df, requestVars >>
  /\ UNCHANGED rankVars

\* An exception leaves the loader: startup dies, /reload answers 500.
LoaderRaises ==
  /\ ldPc' = "idle"
  /\ IF apiState = "loading"
     THEN apiState' = "failed" /\ rlResp' = rlResp
     ELSE apiState' = apiState /\ rlResp' = "error"

\* The loader's last statement ran: the snapshot is the four globals.
LoaderReturns(df) ==
  /\ jobs_df' = df
  /\ ldPc' = "idle"
  /\ IF apiState = "loading"
     THEN apiState' = "up" /\ rlResp' = rlResp
     ELSE apiState' = apiState /\ rlResp' = "success"

\* job_ids = np.load(IDS_PATH)
load_job_ids ==
  /\ ldPc = "job_ids"
  /\ IF exists(IDS_PATH)
     THEN /\ job_ids' = disk[IDS_PATH]
          /\ ldPc' = "job_title_embs"
          /\ UNCHANGED << apiState, rlResp >>
     ELSE /\ LoaderRaises
          /\ UNCHANGED job_ids
  /\ UNCHANGED << db, disk, removals, builderVars, index, job_title_embs,
                  jobs_df, ldPre, ldMissing, requestVars, rqOverlap >>
  /\ UNCHANGED rankVars

\* job_title_embs = np.load(TITLE_EMB_PATH, allow_pickle=True)
load_job_title_embs ==
  /\ ldPc = "job_title_embs"
  /\ IF exists(TITLE_EMB_PATH)
     THEN /\ job_title_embs' = disk[TITLE_EMB_PATH]
          /\ ldPc' = "jobs_df"
          /\ UNCHANGED << apiState, rlResp >>
     ELSE /\ LoaderRaises
          /\ UNCHANGED job_title_embs
  /\ UNCHANGED << db, disk, removals, builderVars, index, job_ids, jobs_df,
                  ldPre, ldMissing, requestVars, rqOverlap >>
  /\ UNCHANGED rankVars

\* fetch_all_jobs_from_db: the table, or None when mysql.connector raised its
\* Error (caught inside), or any other exception, which it lets through.
FetchOutcomes == {"ok", "mysql_error", "exception"}

\* try: jobs_df = fetch_all_jobs_from_db()
\* except Exception: jobs_df = load_jobs_from_csv(CSV_PATH)
load_jobs_df(outcome) ==
  /\ ldPc = "jobs_df"
  /\ CASE outcome = "ok" ->
            LoaderReturns(Some(db))
       [] outcome = "mysql_error" ->
            LoaderReturns(None)
       [] outcome = "exception" ->
            IF exists(CSV_PATH)
            THEN LoaderReturns(disk[CSV_PATH])
            ELSE /\ LoaderRaises
                 /\ UNCHANGED jobs_df
  /\ UNCHANGED << db, disk, removals, builderVars, index, job_ids,
                  job_title_embs, ldPre, ldMissing, requestVars, rqOverlap >>
  /\ UNCHANGED rankVars

\* ---------------------------------------------------------------- request
\* get_recommendations: fetch_user_by_id, 404 when there is no such user.
get_recommendations(found) ==
  /\ apiState = "up"
  /\ rqPc = "idle"
  /\ rqPc' = IF found THEN "index" ELSE "idle"
  /\ args' = NoArgs
  /\ rqOverlap' = IF found /\ ldPc # "idle" THEN 1 ELSE 0
  /\ UNCHANGED << db, disk, removals, builderVars, loaderVars >>
  /\ UNCHANGED rankVars

\* The call's arguments are evaluated left to right, one global at a time.
read_index ==
  /\ rqPc = "index"
  /\ args' = [args EXCEPT !.index = index]
  /\ rqPc' = "job_ids"
  /\ UNCHANGED << db, disk, removals, builderVars, loaderVars, rqOverlap >>
  /\ UNCHANGED rankVars

read_job_ids ==
  /\ rqPc = "job_ids"
  /\ args' = [args EXCEPT !.job_ids = job_ids]
  /\ rqPc' = "jobs_df"
  /\ UNCHANGED << db, disk, removals, builderVars, loaderVars, rqOverlap >>
  /\ UNCHANGED rankVars

read_jobs_df ==
  /\ rqPc = "jobs_df"
  /\ args' = [args EXCEPT !.jobs_df = jobs_df]
  /\ rqPc' = "job_title_embs"
  /\ UNCHANGED << db, disk, removals, builderVars, loaderVars, rqOverlap >>
  /\ UNCHANGED rankVars

read_job_title_embs ==
  /\ rqPc = "job_title_embs"
  /\ args' = [args EXCEPT !.job_title_embs = job_title_embs]
  /\ rqPc' = "call"
  /\ UNCHANGED << db, disk, removals, builderVars, loaderVars, rqOverlap >>
  /\ UNCHANGED rankVars

\* recommend_jobs_for_user runs on the arguments read (SpecRank follows it)
\* and the handler answers.
call_recommend ==
  /\ rqPc = "call"
  /\ rqPc' = "idle"
  /\ args' = NoArgs
  /\ rqOverlap' = 0
  /\ UNCHANGED << db, disk, removals, builderVars, loaderVars >>
  /\ UNCHANGED rankVars

\* ------------------------------------------------------------------- Spec
MainInit ==
  /\ db = <<>>
  /\ disk = [p \in Paths |-> IF p = CSV_PATH THEN Some(CsvJobs) ELSE None]
  /\ removals = 0
  /\ bPc = 0
  /\ bld = NoArrays
  /\ apiState = "down"
  /\ index = None
  /\ job_ids = None
  /\ job_title_embs = None
  /\ jobs_df = None
  /\ ldPc = "idle"
  /\ ldPre = << None, None, None, None >>
  /\ ldMissing = FALSE
  /\ rlResp = "none"
  /\ rqOverlap = 0
  /\ rqPc = "idle"
  /\ args = NoArgs

Init ==
  /\ MainInit
  /\ rin = NoRankInput
  /\ rpc = "off"
  /\ rout = NoRankOutput

Next ==
  \/ \E texts \in JobTexts : InsertJob(texts)
  \/ \E p \in Paths : RemoveArtifact(p)
  \/ \E dbOk \in BOOLEAN : full_build(dbOk)
  \/ \E dbOk \in BOOLEAN : incremental_update(dbOk)
  \/ save_files
  \/ load_resources
  \/ reload_resources
  \/ load_job_ids
  \/ load_job_title_embs
  \/ \E outcome \in FetchOutcomes : load_jobs_df(outcome)
  \/ \E found \in BOOLEAN : get_recommendations(found)
  \/ read_index
  \/ read_job_ids
  \/ read_jobs_df
  \/ read_job_title_embs
  \/ call_recommend

Spec == Init /\ [][Next]_vars

\* ============================================================== SpecRank
\* recommend_jobs_for_user. Positions are 0-based as in Python; the index is
\* the sequence of the query's inner products with its vectors; a title slot
\* is None or <<cosine with the user's title embedding>>; a jobs_df row
\* carries the job_id and the row's fuzzy, skills and location signals for
\* this user. Cosines, ratios and location scores are in hundredths,
\* title_sim, retrieval and final scores in 1/10000.

FaissPoolDefault == 300     \* faiss_pool=300
StrongTopN == 80            \* top_n=80
NoHitScore == -10000000     \* the distance faiss pads a missing hit with (-FLT_MAX)

Min(a, b) == IF a < b THEN a ELSE b
Max(a, b) == IF a > b THEN a ELSE b

\* a[i] of a Python sequence: a negative i counts from the end
InRange(a, i) == -Len(a) <= i /\ i < Len(a)
At(a, i) == IF i < 0 THEN a[Len(a) + i + 1] ELSE a[i + 1]
\* a[:k]
PySlice(a, k) == SubSeq(a, 1, IF k < 0 THEN Max(0, Len(a) + k) ELSE Min(k, Len(a)))

\* the elements of S in the order given by the key function (distinct keys,
\* compared as tuples of integers, smallest first)
TupleLess(a, b) ==
  \E k \in 1..Len(a) :
    /\ a[k] < b[k]
    /\ \A m \in 1..(k - 1) : a[m] = b[m]

SortSet(S, key) ==
  [k \in 1..Cardinality(S) |->
     CHOOSE x \in S : Cardinality({y \in S : TupleLess(key[y], key[x])}) = k - 1]

\* index.search(q, top_k): the top_k best positions by inner product, then
\* label -1 with the padding distance when the index holds fewer vectors.
search_index(index_, top_k) ==
  LET n == Len(index_)
      hits == SortSet(0..(n - 1), [p \in 0..(n - 1) |-> << -index_[p + 1], p >>])
  IN [I |-> [j \in 1..top_k |-> IF j <= n THEN hits[j] ELSE -1],
      D |-> [j \in 1..top_k |-> IF j <= n THEN index_[hits[j] + 1] ELSE NoHitScore]]

\* mutant of title_cosine: a missing title embedding counts as a full match
title_cosine_none_full(emb) == IF emb = None THEN 100 ELSE Val(emb)

\* cosine_sim(user_title_emb, emb) if emb is not None else 0
title_cosine(emb) == IF emb = None THEN 0 ELSE Val(emb)

\* np.argsort(sims)[::-1][:top_n]: descending similarity; the ascending sort
\* keeps equal values in position order, so reversed the later one is first
top_semantic_title_matches(title_embs, top_n) ==
  LET n == Len(title_embs)
      sims(p) == title_cosine(title_embs[p + 1])
  IN PySlice(SortSet(0..(n - 1), [p \in 0..(n - 1) |-> << -sims(p), -p >>]), top_n)

\* mutant of assign_title_priority: the first threshold is exclusive
assign_title_priority_strict(title_sim) ==
  IF title_sim > 8000 THEN 0 ELSE IF title_sim >= 5500 THEN 1 ELSE 2

\* title_sim in 1/10000
assign_title_priority(title_sim) ==
  IF title_sim >= 8000 THEN 0 ELSE IF title_sim >= 5500 THEN 1 ELSE 2

\* e^(x/100) in 1/10000, by its series
Exp100(x) ==
  10000 + 100 * x + (x * x) \div 2 + (x * x * x) \div 600
        + (x * x * x * x) \div 240000

softmax_list(arr) ==
  LET exps == [i \in 1..3 |-> Exp100(arr[i])]
      s_ == exps[1] + exps[2] + exps[3]
  IN [i \in 1..3 |-> (exps[i] * 10000) \div s_]

\* mutant of row_found: the emptiness test is on the table, not the selection
row_found_any(df, jid) == Len(df) > 0

\* if not row.empty
row_found(df, jid) == \E r \in 1..Len(df) : df[r].job_id = jid

\* row.iloc[0]
row0_of(df, jid) ==
  df[CHOOSE r \in 1..Len(df) :
       df[r].job_id = jid /\ \A q \in 1..(r - 1) : df[q].job_id # jid]

\* faiss_scores[min(i, len(faiss_scores)-1)]
base_score_of(faiss_scores, i) == At(faiss_scores, Min(i, Len(faiss_scores) - 1))

\* set(faiss_idxs) | set(strong_idx) | set(basic_idx), listed
combined_idx_of(faiss_idxs, strong_idx, basic_idx) ==
  LET S == SeqRange(faiss_idxs) \cup SeqRange(strong_idx) \cup SeqRange(basic_idx)
  IN SortSet(S, [p \in S |-> << IF p >= 0 THEN 0 ELSE 1, p >>])

\* the scoring loop's body for one pool entry
score_candidate(e) ==
  LET sem == title_cosine(e.title_emb)
      fuzzy == e.row0.title_fuzzy
      title_sim == 60 * sem + 40 * fuzzy
      sm == softmax_list(<< title_sim \div 100, e.row0.skills_sim, e.row0.loc >>)
      field_score == (55 * sm[1] + 30 * sm[2] + 10 * sm[3]) \div 100
      final_score == (5 * e.base_score + 95 * field_score + 50) \div 100
  IN [job_id |-> e.jid, pos |-> e.pos, title_sim |-> title_sim,
      base_score |-> e.base_score,
      final_score |-> final_score, priority |-> assign_title_priority(title_sim)]

\* mutant of sorted_results: the key is -final_score alone
sorted_by_score(results) ==
  LET perm == SortSet(1..Len(results),
                      [i \in 1..Len(results) |-> << -results[i].final_score, i >>])
  IN [k \in 1..Len(results) |-> results[perm[k]]]

\* sorted(results, key=lambda r: (r["_priority"], -r["_final_score"])), stable
sorted_results(results) ==
  LET perm == SortSet(1..Len(results),
                      [i \in 1..Len(results) |->
                         << results[i].priority, -results[i].final_score, i >>])
  IN [k \in 1..Len(results) |-> results[perm[k]]]

recommend_jobs_for_user(index_, job_ids_, jobs_df_, title_embs, top_k, faiss_pool) ==
  IF top_k + faiss_pool <= 0
  THEN [NoRankOutput EXCEPT !.raised = TRUE]         \* faiss: k > 0
  ELSE
  LET found == search_index(index_, top_k + faiss_pool)
      faiss_idxs == PySlice(found.I, faiss_pool)
      faiss_scores == found.D
      strong_idx == top_semantic_title_matches(title_embs, StrongTopN)
      basic_idx == top_semantic_title_matches(title_embs, faiss_pool)
      combined_idx == combined_idx_of(faiss_idxs, strong_idx, basic_idx)
      kept == SelectSeq(combined_idx,
                        LAMBDA i : InRange(job_ids_, i)
                                   /\ row_found(jobs_df_, At(job_ids_, i)))
      pool == [k \in 1..Len(kept) |->
                 [pos |-> kept[k], jid |-> At(job_ids_, kept[k]),
                  row0 |-> row0_of(jobs_df_, At(job_ids_, kept[k])),
                  title_emb |-> At(title_embs, kept[k]),
                  base_score |-> base_score_of(faiss_scores, kept[k])]]
      results == [k \in 1..Len(pool) |-> score_candidate(pool[k])]
      ranked == sorted_results(results)
  IN IF \/ \E k \in 1..Len(combined_idx) :
             \/ ~InRange(job_ids_, combined_idx[k])
             \/ ~InRange(title_embs, combined_idx[k])
        \/ \E k \in 1..Len(kept) :             \* row.iloc[0] of no row
             \A r \in 1..Len(jobs_df_) : jobs_df_[r].job_id # At(job_ids_, kept[k])
     THEN [NoRankOutput EXCEPT !.raised = TRUE]      \* IndexError
     ELSE [raised |-> FALSE,
           pool |-> [k \in 1..Len(pool) |->
                       [pos |-> pool[k].pos, jid |-> pool[k].jid,
                        base_score |-> pool[k].base_score]],
           ranked |-> ranked,
           ret |-> PySlice(ranked, top_k)]

\* How the user's profile compares with a job: the cosine of the title
\* embeddings (no slot value when the job's title embedding is None), the
\* token-set ratio of the titles, the skills similarity, the location score.
JobSignals ==
  { [title_emb |-> Some(100), title_fuzzy |-> 100, skills_sim |-> 80, loc |-> 100],
    [title_emb |-> Some(60), title_fuzzy |-> 50, skills_sim |-> 0, loc |-> 70],
    [title_emb |-> None, title_fuzzy |-> 50, skills_sim |-> 0, loc |-> 10] }

\* the inner product of the query with the vector ranked r-th by the search
ScoreOfRank(r) == 9500 - 1500 * r

TopKs == (-1)..MaxTopK
FaissPools == {1, FaissPoolDefault}

\* An aligned snapshot of n jobs (ids 11, 12, ...), a jobs table that may lack
\* one of them, and the request's top_k.
InitRank ==
  /\ MainInit
  /\ rpc = "ready"
  /\ rout = NoRankOutput
  /\ \E n \in 0..MaxN :
       \E sig \in [1..n -> JobSignals], rank \in Permutations(1..n),
          absent \in {0} \cup (1..n), top_k \in TopKs, faiss_pool \in FaissPools :
         LET rows == [p \in 1..n |->
                        [job_id |-> 10 + p, title_fuzzy |-> sig[p].title_fuzzy,
                         skills_sim |-> sig[p].skills_sim, loc |-> sig[p].loc]]
         IN rin = [index |-> [p \in 1..n |-> ScoreOfRank(rank[p])],
                   job_ids |-> [p \in 1..n |-> 10 + p],
                   jobs_df |-> SelectSeq(rows, LAMBDA r : r.job_id # 10 + absent),
                   job_title_embs |-> [p \in 1..n |-> sig[p].title_emb],
                   top_k |-> top_k, faiss_pool |-> faiss_pool]

Recommend ==
  /\ rpc = "ready"
  /\ rout' = recommend_jobs_for_user(rin.index, rin.job_ids, rin.jobs_df,
                                     rin.job_title_embs, rin.top_k, rin.faiss_pool)
  /\ rpc' = "done"
  /\ UNCHANGED << rin, mainVars >>

NextRank == Recommend

SpecRank == InitRank /\ [][NextRank]_vars

\* ============================================================== SpecTier
\* assign_title_priority on every title_sim from -0.6 (cosine -1, ratio 0)
\* to 1.0, in 1/10000.
MinTitleSim == -6000
MaxTitleSim == 10000

InitTier ==
  /\ MainInit
  /\ rpc = "ready"
  /\ rout = NoRankOutput
  /\ \E t \in MinTitleSim..MaxTitleSim : rin = [title_sim |-> t]

AssignTitlePriority ==
  /\ rpc = "ready"
  /\ rout' = [priority |-> assign_title_priority(rin.title_sim)]
  /\ rpc' = "done"
  /\ UNCHANGED << rin, mainVars >>

NextTier == AssignTitlePriority

SpecTier == InitTier /\ [][NextTier]_vars

\* C11: the tier is 0 exactly when title_sim >= 0.80, 1 exactly when
\* 0.55 <= title_sim < 0.80 and 2 otherwise, and it does not decrease when
\* title_sim decreases.
C11_TierByThresholds ==
  rpc = "done" =>
    /\ rout.priority = 0 <=> rin.title_sim >= 8000
    /\ rout.priority = 1 <=> (5500 <= rin.title_sim /\ rin.title_sim < 8000)
    /\ rout.priority = 2 <=> rin.title_sim < 5500
    /\ \A t \in MinTitleSim..rin.title_sim :
         assign_title_priority(t) >= rout.priority

\* the call was made on 0.7999, just under the first threshold
C11_Witness == rpc = "done" /\ rin.title_sim = 7999 /\ rout.priority = 1

\* =============================================================== SpecLoc
\* The location score of recommend_jobs_for_user. A string is the sequence
\* of its characters; None and "" are both the empty sequence (x or "").
MaxCityLen == 2
MaxPrefLen == 3

UserCityChars == {"a", "A", " "}
JobCityChars == {"a", "b", "A", " "}
PrefChars == {"a", "A", " ", ","}

StringsOver(chars, maxLen) == UNION {[1..n -> chars] : n \in 0..maxLen}

\* str.lower()
lower(x) == [i \in 1..Len(x) |-> IF x[i] = "A" THEN "a" ELSE x[i]]

\* str.strip()
RECURSIVE lstrip(_)
lstrip(x) == IF x # <<>> /\ Head(x) = " " THEN lstrip(Tail(x)) ELSE x

RECURSIVE rstrip(_)
rstrip(x) ==
  IF x # <<>> /\ x[Len(x)] = " " THEN rstrip(SubSeq(x, 1, Len(x) - 1)) ELSE x

strip(x) == rstrip(lstrip(x))

\* def norm(x): return str(x or "").strip().lower()
norm_nolower(x) == strip(x)       \* mutant of norm: no .lower()

norm(x) == lower(strip(x))

\* str.split(","): the pieces between the commas, one piece for no comma
RECURSIVE split(_)
split(x) ==
  IF \A i \in 1..Len(x) : x[i] # ","
  THEN << x >>
  ELSE LET c == CHOOSE i \in 1..Len(x) :
                  x[i] = "," /\ \A k \in 1..(i - 1) : x[k] # ","
       IN << SubSeq(x, 1, c - 1) >> \o split(SubSeq(x, c + 1, Len(x)))

\* l in job_city
str_in(l, x) ==
  \E o \in 0..(Len(x) - Len(l)) : SubSeq(x, o + 1, o + Len(l)) = l

\* [norm(x) for x in str(... or "").split(",") if x.strip()]
user_pref_locs_of(user_job_location) ==
  LET pieces == SelectSeq(split(user_job_location), LAMBDA x : strip(x) # <<>>)
  IN [k \in 1..Len(pieces) |-> norm(pieces[k])]

\* loc = 1 if job_city == user_city else (0.7 if any(...) else 0.1), in 1/100
location_score(user_city_raw, user_job_location, job_city_raw) ==
  LET user_city == norm(user_city_raw)
      user_pref_locs == user_pref_locs_of(user_job_location)
      job_city == norm(job_city_raw)
  IN IF job_city = user_city THEN 100
     ELSE IF \E k \in 1..Len(user_pref_locs) : str_in(user_pref_locs[k], job_city)
          THEN 70 ELSE 10

InitLoc ==
  /\ MainInit
  /\ rpc = "ready"
  /\ rout = NoRankOutput
  /\ \E uc \in StringsOver(UserCityChars, MaxCityLen),
        jc \in StringsOver(JobCityChars, MaxCityLen),
        pl \in StringsOver(PrefChars, MaxPrefLen) :
       rin = [user_city |-> uc, user_job_location |-> pl, job_city |-> jc]

LocationScore ==
  /\ rpc = "ready"
  /\ rout' = [loc |-> location_score(rin.user_city, rin.user_job_location,
                                      rin.job_city)]
  /\ rpc' = "done"
  /\ UNCHANGED << rin, mainVars >>

NextLoc == LocationScore

SpecLoc == InitLoc /\ [][NextLoc]_vars

\* the string without its leading and trailing blanks, in lower case
TrimmedLowered(x) ==
  LET inked == {i \in 1..Len(x) : x[i] # " "}
      first == CHOOSE i \in inked : \A k \in inked : i <= k
      last == CHOOSE i \in inked : \A k \in inked : i >= k
      t == IF inked = {} THEN <<>> ELSE SubSeq(x, first, last)
  IN [i \in 1..Len(t) |-> IF t[i] = "A" THEN "a" ELSE t[i]]

\* the comma-separated tokens of x, trimmed and lowered, the empty ones left out
TokensOf(x) ==
  LET cuts == {0, Len(x) + 1} \cup {i \in 1..Len(x) : x[i] = ","}
  IN { TrimmedLowered(SubSeq(x, a + 1, b - 1)) :
         <<a, b>> \in {ab \in cuts \X cuts :
                         /\ ab[1] < ab[2]
                         /\ \A c \in cuts : ~(ab[1] < c /\ c < ab[2])} } \ {<<>>}

Occurs(l, x) ==
  \E a \in 1..(Len(x) + 1) : \E b \in (a - 1)..Len(x) : SubSeq(x, a, b) = l

\* C12: the location score is 1.0 when the trimmed, lowercased cities are
\* equal, else 0.7 when the job city contains a non-empty trimmed, lowercased
\* token of the preferred locations, else 0.1; an empty preferred-locations
\* string with another city gives 0.1.
C12_LocationScore ==
  rpc = "done" =>
    LET uc == TrimmedLowered(rin.user_city)
        jc == TrimmedLowered(rin.job_city)
    IN /\ rout.loc = IF jc = uc THEN 100
                     ELSE IF \E l \in TokensOf(rin.user_job_location) : Occurs(l, jc)
                          THEN 70 ELSE 10
       /\ (rin.user_job_location = <<>> /\ jc # uc) => rout.loc = 10

\* the job city contains a token given in upper case among blanks and commas
C12_Witness ==
  /\ rpc = "done"
  /\ rin.user_job_location = << ",", " ", "A" >>
  /\ rin.job_city = << "a", "b" >>
  /\ rin.user_city = << "a" >>
  /\ rout.loc = 70

\* ============================================================= SpecBuild
\* The builder alone: rows are inserted, a file may be removed, and __main__
\* of incremental.py runs again and again, one run at a time.
InitBuild == Init

NextBuild ==
  \/ \E texts \in JobTexts : InsertJob(texts)
  \/ \E p \in Paths : RemoveArtifact(p)
  \/ \E dbOk \in BOOLEAN : full_build(dbOk)
  \/ \E dbOk \in BOOLEAN : incremental_update(dbOk)
  \/ save_files

SpecBuild == InitBuild /\ [][NextBuild]_vars

IsPrefix(a, b) == Len(a) <= Len(b) /\ SubSeq(b, 1, Len(a)) = a

NoDup(a) == \A i, j \in 1..Len(a) : i # j => a[i] # a[j]

AllArtifacts == \A p \in required_files : disk[p] # None

\* C15: incremental_update is append-only. The arrays a run is about to save
\* extend the persisted ones, the ids it appends are ids of the table that
\* the id file lacked, and no id is stored twice; every save of the run
\* extends the file it rewrites; and when the table holds no id the id file
\* lacks, a run starts no save and the five files stay as they are.
C15_AppendOnly ==
  [][ /\ (bPc = 0 /\ bPc' = 1 /\ AllArtifacts) =>
           /\ IsPrefix(Val(disk[EMBED_PATH]), bld'.embs)
           /\ IsPrefix(Val(disk[IDS_PATH]), bld'.ids)
           /\ IsPrefix(Val(disk[META_PATH]), bld'.metas)
           /\ IsPrefix(Val(disk[TITLE_EMB_PATH]), bld'.title_embs)
           /\ IsPrefix(Val(disk[INDEX_PATH]), bld'.index)
           /\ Len(bld'.ids) > Len(Val(disk[IDS_PATH]))
           /\ \A i \in (Len(Val(disk[IDS_PATH])) + 1)..Len(bld'.ids) :
                /\ \E r \in 1..Len(db) : db[r].job_id = bld'.ids[i]
                /\ \A k \in 1..Len(Val(disk[IDS_PATH])) :
                     Val(disk[IDS_PATH])[k] # bld'.ids[i]
           /\ NoDup(bld'.ids)
      /\ \A p \in required_files :
           (disk[p] # None /\ disk'[p] # disk[p] /\ removals' = removals) =>
             /\ disk'[p] # None
             /\ IsPrefix(Val(disk[p]), Val(disk'[p]))
      /\ (/\ bPc = 0
          /\ AllArtifacts
          /\ db' = db
          /\ removals' = removals
          /\ \A r \in 1..Len(db) :
               \E k \in 1..Len(Val(disk[IDS_PATH])) :
                 Val(disk[IDS_PATH])[k] = db[r].job_id) =>
           (bPc' = 0 /\ disk' = disk)
     ]_vars

\* an incremental run is saving: the id file has job 2 appended to job 1, the
\* metadata file is still the one of the run before
C15_Witness ==
  /\ removals = 0
  /\ bPc = 3
  /\ disk[IDS_PATH] = Some(<< 1, 2 >>)
  /\ disk[META_PATH] = Some(<< 1 >>)

\* ------------------------------------------------------- claims C1-C4, C10
ArgsTuple == << args.index, args.job_ids, args.job_title_embs, args.jobs_df >>

AllText == \A i \in 1..Len(db) : HasText(db[i])

\* position i of the index, of job_ids and of job_title_embs is the same job
SnapshotAligned(ix, ids, title_embs) ==
  /\ Len(ix) = Len(ids)
  /\ Len(title_embs) = Len(ids)
  /\ \A i \in 1..Len(ids) : ix[i] = ids[i] /\ Abs(title_embs[i]) = ids[i]

\* C1: a request that ran alongside at most one reload, which has succeeded,
\* passes recommend_jobs_for_user the four globals as they were before that
\* reload or the four globals as that reload left them, never a mix.
C1_ArgsFromOneSnapshot ==
  (rqPc = "call" /\ rqOverlap <= 1 /\ ldPc = "idle" /\ rlResp = "success")
    => ArgsTuple \in {ldPre, globals}

\* C2: after a reload that failed, index, job_ids, job_title_embs and jobs_df
\* hold the values they had when the reload started.
C2_FailedReloadKeepsSnapshot ==
  rlResp = "error" => globals = ldPre

\* C3: the snapshot a completed load_resources or reload_resources leaves is
\* aligned, whatever the builder was saving meanwhile (stated for tables whose
\* rows all have text, so that the builder's own arrays are aligned).
C3_PublishedSnapshotAligned ==
  (apiState = "up" /\ ldPc = "idle" /\ rlResp # "error" /\ AllText)
    => SnapshotAligned(Val(index), Val(job_ids), Val(job_title_embs))

\* C4: once a build has finished, the id, content-embedding, metadata and
\* title-embedding arrays and the index have one length and position i of
\* each is the same job.
C4_ArtifactsAligned ==
  (bPc = 0 /\ \A p \in required_files : exists(p))
    => /\ SnapshotAligned(Val(disk[INDEX_PATH]), Val(disk[IDS_PATH]),
                          Val(disk[TITLE_EMB_PATH]))
       /\ Val(disk[EMBED_PATH]) = Val(disk[IDS_PATH])
       /\ Val(disk[META_PATH]) = Val(disk[IDS_PATH])

\* C10: a load that began with one of the five artifacts missing has failed
\* and has assigned none of the globals.
C10_MissingArtifactPublishesNothing ==
  ldMissing =>
    \/ apiState = "failed" /\ globals = << None, None, None, None >>
    \/ apiState = "up" /\ ldPc = "idle" /\ rlResp = "error" /\ globals = ldPre

\* ---------------------------------------------------------- claims C5-C9
RankDone == rpc = "done" /\ ~rout.raised

\* the positions among the first faiss_pool hits of the search
KeptAnnHits ==
  SeqRange(PySlice(search_index(rin.index, rin.top_k + rin.faiss_pool).I,
                   rin.faiss_pool)) \ {-1}

DfIds == {rin.jobs_df[r].job_id : r \in 1..Len(rin.jobs_df)}

\* C5: a candidate's base score is the score the search returned for its
\* position when the position is a kept hit, and 0 otherwise.
C5_BaseScoreIsAnnScore ==
  RankDone =>
    \A k \in 1..Len(rout.pool) :
      rout.pool[k].pos >= 0 =>
        rout.pool[k].base_score =
          IF rout.pool[k].pos \in KeptAnnHits
          THEN rin.index[rout.pool[k].pos + 1] ELSE 0

\* C6: the returned list is ordered by ascending priority and, within one
\* priority, by descending final_score.
C6_RankedByTierThenScore ==
  RankDone =>
    \A i, j \in 1..Len(rout.ret) :
      i < j =>
        \/ rout.ret[i].priority < rout.ret[j].priority
        \/ /\ rout.ret[i].priority = rout.ret[j].priority
           /\ rout.ret[i].final_score >= rout.ret[j].final_score

\* a result of a better tier precedes one of a worse tier with a higher score
C6_Witness ==
  /\ RankDone
  /\ \E i, j \in 1..Len(rout.ret) :
       /\ i < j
       /\ rout.ret[i].priority < rout.ret[j].priority
       /\ rout.ret[i].final_score < rout.ret[j].final_score

\* C7: the returned list has min(top_k, pool size) entries, the first of the
\* sorted candidates.
C7_LengthIsMinTopK ==
  RankDone =>
    /\ Len(rout.ret) = Min(rin.top_k, Len(rout.pool))
    /\ rout.ret = SubSeq(rout.ranked, 1, Len(rout.ret))

\* C8: no job occurs twice in the pool or in the returned list.
C8_PoolDeduplicated ==
  RankDone =>
    /\ \A i, j \in 1..Len(rout.pool) :
         i # j => rout.pool[i].jid # rout.pool[j].jid
    /\ \A i, j \in 1..Len(rout.ret) :
         i # j => rout.ret[i].job_id # rout.ret[j].job_id

\* C9: on a non-empty snapshot the call does not raise, every scored
\* candidate's job id is in jobs_df, and every position whose id is in
\* jobs_df is scored and ranked.
C9_AbsentIdsDropped ==
  (rpc = "done" /\ Len(rin.job_ids) > 0 /\ rin.top_k + rin.faiss_pool > 0) =>
    /\ ~rout.raised
    /\ \A k \in 1..Len(rout.ranked) : rout.ranked[k].job_id \in DfIds
    /\ \A p \in 1..Len(rin.job_ids) :
         rin.job_ids[p] \in DfIds =>
           \E k \in 1..Len(rout.ranked) : rout.ranked[k].pos = p - 1

\* a job id of the snapshot is missing from jobs_df and the others are ranked
C9_Witness ==
  /\ RankDone
  /\ \E p \in 1..Len(rin.job_ids) : rin.job_ids[p] \notin DfIds
  /\ Len(rout.ranked) > 0

\* C13: a candidate whose title embedding is None is scored and ranked with
\* no error; its cosine term is 0 in the title scans (every job of positive
\* cosine is listed before it) and in title_sim, which is 0.4 times the fuzzy
\* ratio of the titles.
C13_NoTitleEmbStillRanked ==
  (rpc = "done" /\ Len(rin.job_ids) > 0 /\ rin.top_k + rin.faiss_pool > 0) =>
    /\ ~rout.raised
    /\ \A p \in 1..Len(rin.job_ids) :
         (rin.job_title_embs[p] = None /\ rin.job_ids[p] \in DfIds) =>
           LET row == CHOOSE r \in 1..Len(rin.jobs_df) :
                        rin.jobs_df[r].job_id = rin.job_ids[p]
               scan == top_semantic_title_matches(rin.job_title_embs, StrongTopN)
           IN /\ \E k \in 1..Len(rout.ranked) :
                   /\ rout.ranked[k].pos = p - 1
                   /\ rout.ranked[k].title_sim = 40 * rin.jobs_df[row].title_fuzzy
              /\ \A q \in 1..Len(rin.job_ids) :
                   (rin.job_title_embs[q] # None /\ Val(rin.job_title_embs[q]) > 0) =>
                     \E a, b \in 1..Len(scan) :
                       a < b /\ scan[a] = q - 1 /\ scan[b] = p - 1

\* a job with no title embedding is ranked, by its fuzzy ratio alone, among
\* jobs that have one
C13_Witness ==
  /\ RankDone
  /\ \E k, m \in 1..Len(rout.ranked) :
       /\ At(rin.job_title_embs, rout.ranked[k].pos) = None
       /\ rout.ranked[k].title_sim = 2000
       /\ At(rin.job_title_embs, rout.ranked[m].pos) # None

\* C14: after a load that did not raise, jobs_df is a table, never null: the
\* rows fetched from the database (a prefix of the table as it is now, rows
\* being only added) or the rows of the CSV file.
C14_JobsDfNeverNull ==
  (apiState = "up" /\ ldPc = "idle" /\ rlResp # "error") =>
    /\ jobs_df # None
    /\ \/ \E k \in 0..Len(db) : Val(jobs_df) = SubSeq(db, 1, k)
       \/ Val(jobs_df) = CsvJobs

====
